---- MODULE Spec2Model ----
(***************************************************************************)
(* apifetch-json: ApiFetch (request orchestration and RequestInit merge)   *)
(* and MemoryFetchCache (in-memory cache), modelled from src/src/*.ts.     *)
(***************************************************************************)
EXTENDS Integers, Sequences, FiniteSets, TLC

VARIABLES items, now, initArg, defaultInit, req, done, raised

vars == <<items, now, initArg, defaultInit, req, done, raised>>

(***************************************************************************)
(* Bounds of the model.                                                    *)
(***************************************************************************)
\* the clock (Date.now()) runs over 0..MaxTime
MaxTime == 2
\* the cache holds at most MaxItems entries
MaxItems == 2
\* request slots: at most MaxRequests requests are outstanding at once
MaxRequests == 2

(***************************************************************************)
(* JavaScript values: a tag and a payload.  The tag field sorts first, so  *)
(* values of different types compare unequal.                              *)
(***************************************************************************)
JsUndefined == [t |-> "undefined", v |-> "undefined"]
JsNull == [t |-> "null", v |-> "null"]
JsBool(b) == [t |-> "boolean", v |-> b]
JsNum(n) == [t |-> "number", v |-> n]
JsStr(s) == [t |-> "string", v |-> s]
\* an object: v maps the object's own property names to JavaScript values
JsObj(props) == [t |-> "object", v |-> props]
\* a Date: v is its time value
JsDate(n) == [t |-> "date", v |-> n]
\* an array of strings: v is the sequence of its elements
JsArr(s) == [t |-> "array", v |-> s]

\* ToBoolean: what `if (x)`, `!x`, `x && y`, `x ? a : b` test
Truthy(x) ==
    CASE x.t = "undefined" -> FALSE
      [] x.t = "null" -> FALSE
      [] x.t = "boolean" -> x.v
      [] x.t = "number" -> x.v # 0
      [] x.t = "string" -> x.v # ""
      [] OTHER -> TRUE

\* x.name: undefined when x has no such property (x is not null or undefined)
Prop(x, name) ==
    IF x.t = "object" /\ name \in DOMAIN x.v THEN x.v[name] ELSE JsUndefined

\* the decimal digits of a natural number (template literal `${n}`)
DigitStr(d) ==
    CASE d = 0 -> "0" [] d = 1 -> "1" [] d = 2 -> "2" [] d = 3 -> "3"
      [] d = 4 -> "4" [] d = 5 -> "5" [] d = 6 -> "6" [] d = 7 -> "7"
      [] d = 8 -> "8" [] d = 9 -> "9"

RECURSIVE NumStr(_)
NumStr(n) == IF n < 10 THEN DigitStr(n) ELSE NumStr(n \div 10) \o DigitStr(n % 10)

\* ToString, as new Error(x) applies it to its message argument
JsToString(x) ==
    CASE x.t = "string" -> x.v
      [] x.t = "number" -> NumStr(x.v)
      [] x.t = "boolean" -> (IF x.v THEN "true" ELSE "false")
      [] x.t = "null" -> "null"
      [] x.t = "undefined" -> "undefined"
      [] OTHER -> "[object Object]"

(***************************************************************************)
(* JSON texts of the model and the values they denote.                     *)
(***************************************************************************)
ObjA == JsObj([a |-> JsNum(1)])
ObjB == JsObj([b |-> JsNum(2)])
ErrDescription == JsObj([error |-> JsObj([description |-> JsStr("bad field")])])
ErrEmptyDescription == JsObj([error |-> JsObj([description |-> JsStr("")])])
ErrString == JsObj([error |-> JsStr("denied")])
ErrObject == JsObj([error |-> JsObj([code |-> JsNum(7)])])
ErrBoth == JsObj([error |-> JsStr("denied"), errorMessage |-> JsStr("failed")])
ErrMessage == JsObj([errorMessage |-> JsStr("failed")])
ErrNone == JsObj([detail |-> JsStr("x")])

\* the JSON texts a response body or a serialized request body can hold
JsonTexts ==
    { "{\"a\":1}", "{\"b\":2}", "0", "null", "false", "\"\"",
      "{\"error\":{\"description\":\"bad field\"}}",
      "{\"error\":{\"description\":\"\"}}",
      "{\"error\":\"denied\"}",
      "{\"error\":{\"code\":7}}",
      "{\"error\":\"denied\",\"errorMessage\":\"failed\"}",
      "{\"errorMessage\":\"failed\"}",
      "{\"detail\":\"x\"}" }

\* JSON.parse on the texts of the model (any other text is a SyntaxError)
JsonParse(text) ==
    CASE text = "{\"a\":1}" -> ObjA
      [] text = "{\"b\":2}" -> ObjB
      [] text = "0" -> JsNum(0)
      [] text = "null" -> JsNull
      [] text = "false" -> JsBool(FALSE)
      [] text = "\"\"" -> JsStr("")
      [] text = "{\"error\":{\"description\":\"bad field\"}}" -> ErrDescription
      [] text = "{\"error\":{\"description\":\"\"}}" -> ErrEmptyDescription
      [] text = "{\"error\":\"denied\"}" -> ErrString
      [] text = "{\"error\":{\"code\":7}}" -> ErrObject
      [] text = "{\"error\":\"denied\",\"errorMessage\":\"failed\"}" -> ErrBoth
      [] text = "{\"errorMessage\":\"failed\"}" -> ErrMessage
      [] text = "{\"detail\":\"x\"}" -> ErrNone

\* JSON.stringify on the values of the model
JsonStringify(x) ==
    CASE x = ObjA -> "{\"a\":1}"
      [] x = ObjB -> "{\"b\":2}"
      [] x = JsNull -> "null"
      [] x.t = "number" -> NumStr(x.v)
      [] x.t = "boolean" -> (IF x.v THEN "true" ELSE "false")
      [] x.t = "string" -> "\"" \o x.v \o "\""
      [] OTHER -> "{}"

(***************************************************************************)
(* RequestInit objects and their merge (ApiFetch.combineRequestInit).      *)
(* A RequestInit | RequestInitFunction | undefined argument is a           *)
(* JavaScript value: JsObj, JsFn or JsUndefined.                           *)
(***************************************************************************)
\* a RequestInitFunction of the model, by name
JsFn(name) == [t |-> "function", v |-> name]

\* {}: no own properties
EmptyProps == [k \in {} |-> JsUndefined]

\* {...x}: the own enumerable properties of x (none for undefined or a function)
Spread(x) == IF x.t = "object" THEN x.v ELSE EmptyProps

\* mutant: the earlier properties win over the later ones
Overlay_EarlierWins(a, b) ==
    [k \in (DOMAIN a) \cup (DOMAIN b) |-> IF k \in DOMAIN a THEN a[k] ELSE b[k]]

\* {...a, ...b}: b's properties on top of a's
Overlay(a, b) ==
    [k \in (DOMAIN a) \cup (DOMAIN b) |-> IF k \in DOMAIN b THEN b[k] ELSE a[k]]

\* const { name, ...rest } = x: x's properties without name
Rest(props, name) == [k \in (DOMAIN props) \ {name} |-> props[k]]

\* the transform functions of the model:
\*   withToken: init => ({ ...init, headers: { ...init.headers, Authorization: 'Bearer t' } })
\*   onlyHead:  init => ({ method: 'HEAD' })
ApplyInitFunction(name, ret) ==
    CASE name = "withToken" ->
           JsObj(Overlay(ret.v,
                 [headers |-> JsObj(Overlay(Spread(Prop(ret, "headers")),
                                            [Authorization |-> JsStr("Bearer t")]))]))
      [] name = "onlyHead" -> JsObj([method |-> JsStr("HEAD")])

\* mutant: what a transform function returns is merged like a static layer
CombineStep_TransformMerged(ret, init) ==
    IF ~Truthy(init) THEN ret
    ELSE LET layer == IF init.t = "function" THEN ApplyInitFunction(init.v, ret) ELSE init
             headers == Prop(layer, "headers")
             rest == Rest(layer.v, "headers")
         IN  JsObj(Overlay(Overlay(ret.v, rest),
                   [headers |-> IF ~Truthy(headers) THEN Prop(ret, "headers")
                                ELSE JsObj(Overlay(Spread(Prop(ret, "headers")),
                                                   Spread(headers)))]))

\* one pass of the loop of combineRequestInit
CombineStep(ret, init) ==
    IF ~Truthy(init) THEN ret
    ELSE IF init.t = "function" THEN ApplyInitFunction(init.v, ret)
    ELSE LET headers == Prop(init, "headers")
             rest == Rest(init.v, "headers")
         IN  JsObj(Overlay(Overlay(ret.v, rest),
                   [headers |-> IF ~Truthy(headers) THEN Prop(ret, "headers")
                                ELSE JsObj(Overlay(Spread(Prop(ret, "headers")),
                                                   Spread(headers)))]))

RECURSIVE CombineFrom(_, _)
CombineFrom(ret, inits) ==
    IF inits = <<>> THEN ret
    ELSE CombineFrom(CombineStep(ret, Head(inits)), Tail(inits))

CombineRequestInit(inits) == CombineFrom(JsObj(EmptyProps), inits)

\* the built-in defaults of the constructor
BuiltInInit ==
    JsObj([headers |-> JsObj(("Accept" :> JsStr("application/json"))
                             @@ ("Content-Type" :> JsStr("application/json")))])

\* mutant: the constructor leaves the built-in defaults out
ConstructorInit_NoBuiltIn(init) == CombineRequestInit(<<init>>)

\* this.defaultInit after new ApiFetch(init)
ConstructorInit(init) == CombineRequestInit(<<BuiltInInit, init>>)

\* the init a verb method hands to fetch(): { method, [body,] ...(init ? init : {}) }
VerbInit(verb, body, init) ==
    LET given == IF Truthy(init) THEN init ELSE JsObj(EmptyProps)
        sent == IF Truthy(body) THEN JsStr(JsonStringify(body)) ELSE JsUndefined
    IN  CASE verb = "get" -> JsObj(Overlay([method |-> JsStr("GET")], Spread(given)))
          [] verb = "post" ->
               JsObj(Overlay([method |-> JsStr("POST"), body |-> sent], Spread(given)))
          [] verb = "put" ->
               JsObj(Overlay([method |-> JsStr("PUT"), body |-> sent], Spread(given)))
          [] verb = "patch" ->
               JsObj(Overlay([method |-> JsStr("PATCH"), body |-> sent], Spread(given)))
          [] verb = "delete" ->
               JsObj(Overlay([method |-> JsStr("DELETE"), body |-> sent], Spread(given)))
          [] verb = "fetch" -> init

(***************************************************************************)
(* MemoryFetchCache.                                                       *)
(***************************************************************************)
RECURSIVE GenerateCacheId(_)
GenerateCacheId(values) ==
    IF values = <<>> THEN ""
    ELSE LET value == Head(values)
             sValue == IF Truthy(value)
                       THEN (IF value.t = "string" THEN value.v ELSE JsonStringify(value))
                       ELSE ""
         IN  ("[" \o sValue \o "]") \o GenerateCacheId(Tail(values))

\* init && init.body
BodyOf(init) == IF Truthy(init) THEN Prop(init, "body") ELSE init

\* mutant: the method is part of the cache id
CacheIdOf_WithMethod(input, init) ==
    GenerateCacheId(<<JsStr(input), Prop(init, "method"), BodyOf(init)>>)

\* the cache id of a request
CacheIdOf(input, init) == GenerateCacheId(<<JsStr(input), BodyOf(init)>>)

\* mutant: the comparison with the clock reversed
NotExpired_Reversed(item, time) == Truthy(item.expireAt) /\ item.expireAt.v < time

\* mutant: an entry without expireAt is kept for ever
NotExpired_AbsentIsForever(item, time) ==
    ~Truthy(item.expireAt) \/ item.expireAt.v > time

\* cachedItem.expireAt && cachedItem.expireAt > new Date(Date.now())
NotExpired(item, time) == Truthy(item.expireAt) /\ item.expireAt.v > time

\* mutant: the read decides on the latest entry with the id
ReadFromCache_LatestWins(its, input, init, time) ==
    LET cacheId == CacheIdOf(input, init)
        cachedItems == SelectSeq(its, LAMBDA item : item.id = cacheId)
    IN  IF Len(cachedItems) # 0 /\ NotExpired(cachedItems[Len(cachedItems)], time)
        THEN cachedItems[Len(cachedItems)].data
        ELSE JsNull

\* readFromCache(input, init) on the entries its, at time `time`
ReadFromCache(its, input, init, time) ==
    LET cacheId == CacheIdOf(input, init)
        cachedItems == SelectSeq(its, LAMBDA item : item.id = cacheId)
    IN  IF Len(cachedItems) # 0 /\ NotExpired(cachedItems[1], time)
        THEN cachedItems[1].data
        ELSE JsNull

\* mutant: a store replaces the entries of the same id
StoreInCache_Replace(its, input, init, result, options) ==
    Append(SelectSeq(its, LAMBDA item : item.id # CacheIdOf(input, init)),
           [id |-> CacheIdOf(input, init),
            data |-> result,
            expireAt |-> Prop(options, "expireAt"),
            expireOnEvents |-> Prop(options, "expireOnEvents")])

\* mutant: nothing is stored under an id that already has an entry
StoreInCache_IfAbsent(its, input, init, result, options) ==
    IF \E i \in 1..Len(its) : its[i].id = CacheIdOf(input, init)
    THEN its
    ELSE Append(its, [id |-> CacheIdOf(input, init),
                      data |-> result,
                      expireAt |-> Prop(options, "expireAt"),
                      expireOnEvents |-> Prop(options, "expireOnEvents")])

\* storeInCache(input, init, result, options): the new this.items
StoreInCache(its, input, init, result, options) ==
    Append(its, [id |-> CacheIdOf(input, init),
                 data |-> result,
                 expireAt |-> Prop(options, "expireAt"),
                 expireOnEvents |-> Prop(options, "expireOnEvents")])

\* mutant: only the first of the raised events is looked at
KeepOnEvents_FirstEventOnly(item, events) ==
    IF ~Truthy(item.expireOnEvents) THEN TRUE
    ELSE ~(\E i \in 1..Len(events) :
             /\ i = 1
             /\ Len(SelectSeq(item.expireOnEvents.v, LAMBDA it : it = events[i])) # 0)

\* the filter callback of raiseExpireEvents: TRUE when the item is kept
KeepOnEvents(item, events) ==
    IF ~Truthy(item.expireOnEvents) THEN TRUE
    ELSE ~(\E i \in 1..Len(events) :
             Len(SelectSeq(item.expireOnEvents.v, LAMBDA it : it = events[i])) # 0)

\* raiseExpireEvents(...events): the new this.items
RaiseExpireEventsOn(its, events) ==
    SelectSeq(its, LAMBDA item : KeepOnEvents(item, events))

(***************************************************************************)
(* The transport (the global fetch()) and its responses.                   *)
(***************************************************************************)
\* a Response: its status, its Content-Length header (null when not sent), its body text
Response(status, contentLength, body) ==
    [status |-> status, contentLength |-> contentLength, body |-> body]

NoResponse == Response(0, JsNull, "")

\* mutant: every status counts as ok
Ok_AnyStatus(resp) == TRUE

\* response.ok
Ok(resp) == resp.status >= 200 /\ resp.status <= 299

\* response.json() resolves (otherwise it rejects with a SyntaxError)
Decodable(resp) == resp.body \in JsonTexts

\* values thrown: a string is thrown as it is, an Error carries its message
JsError(type, message) == [t |-> type, v |-> message]

StatusMessage(resp) ==
    "Server indicated an error by returning a status of " \o NumStr(resp.status)

\* what fetch() throws for a response that is not ok, once response.json() has settled
ErrorOf(resp) ==
    IF ~Decodable(resp) THEN JsStr(StatusMessage(resp))
    ELSE LET result == JsonParse(resp.body)
             error == Prop(result, "error")
             description == Prop(error, "description")
             errorMessage == Prop(result, "errorMessage")
         IN  IF result.t \in {"null", "undefined"}
             THEN JsError("TypeError", "Cannot read properties of null (reading 'error')")
             ELSE IF Truthy(error)
             THEN (IF Truthy(description)
                   THEN JsError("Error", JsToString(description))
                   ELSE JsError("Error", JsToString(error)))
             ELSE IF Truthy(errorMessage)
             THEN JsError("Error", JsToString(errorMessage))
             ELSE JsStr(StatusMessage(resp))

(***************************************************************************)
(* State.                                                                  *)
(*   items        MemoryFetchCache.items                                   *)
(*   now          Date.now()                                               *)
(*   initArg      the init argument the ApiFetch was constructed with      *)
(*   defaultInit  ApiFetch.defaultInit                                     *)
(*   req          the outstanding calls of ApiFetch.fetch, by slot, each   *)
(*                with the body and init arguments of the verb method, the *)
(*                time and the cache entries at its start, the events      *)
(*                raised since its start and the                           *)
(*                number of transport calls, cache reads, cache writes and *)
(*                response.json() calls it has made                        *)
(*   done         the call that returned or threw in the last step, with   *)
(*                the cache entries just before that step                  *)
(*   raised       the raiseExpireEvents call of the last step              *)
(***************************************************************************)
Slots == 1..MaxRequests

IdleReq ==
    [pc |-> "idle", verb |-> "", input |-> "",
     body |-> JsUndefined, init |-> JsUndefined, finalInit |-> JsUndefined,
     cacheOptions |-> JsUndefined, response |-> NoResponse,
     startedAt |-> 0, seen |-> <<>>, raisedSince |-> {},
     netCalls |-> 0, cacheReads |-> 0, cacheWrites |-> 0, decodes |-> 0]

NoDone ==
    [outcome |-> "none", request |-> IdleReq, value |-> JsUndefined,
     error |-> JsUndefined, hit |-> FALSE, before |-> <<>>]

NoRaise == [fired |-> FALSE, events |-> <<>>, before |-> <<>>]

\* a call that returned value
Resolved(request, value, hit, before) ==
    [outcome |-> "resolved", request |-> request, value |-> value,
     error |-> JsUndefined, hit |-> hit, before |-> before]

\* a call that threw error
Rejected(request, error, before) ==
    [outcome |-> "rejected", request |-> request, value |-> JsUndefined,
     error |-> error, hit |-> FALSE, before |-> before]

\* calls awaiting the transport or the body
InFlight == {r \in Slots : req[r].pc # "idle"}

\* mutant: the cache is used whether or not cacheOptions were passed
UsesCache_Always(cacheOptions) == TRUE

\* cacheOptions && this.cache (the constructor always sets this.cache)
UsesCache(cacheOptions) == Truthy(cacheOptions)

\* mutant: the cached result is looked up and then not returned
ReturnsCached_Never(cachedResult) == FALSE

\* if (cachedResult) return cachedResult
ReturnsCached(cachedResult) == Truthy(cachedResult)

\* mutant: the special case for an empty body is missing
NoContent_Never(resp) == FALSE

\* response.headers.get('Content-Length') === '0'
NoContent(resp) == resp.contentLength = JsStr("0")

\* outstanding calls that will write the cache when they succeed
PendingStores == {r \in Slots : req[r].pc # "idle" /\ UsesCache(req[r].cacheOptions)}

(***************************************************************************)
(* ApiFetch.fetch, from the call to the first await: merge, cache lookup,  *)
(* and either the cached result or the call of the transport.              *)
(* call = [verb, input, body, init]; limit bounds the outstanding calls,   *)
(* room the entries stored or about to be stored.                          *)
(***************************************************************************)
Start(limit, room, call, cacheOptions) ==
    LET r == CHOOSE s \in Slots \ InFlight : \A q \in Slots \ InFlight : s <= q
        finalInit == CombineRequestInit(
                         <<defaultInit, VerbInit(call.verb, call.body, call.init)>>)
        cachedResult == IF UsesCache(cacheOptions)
                        THEN ReadFromCache(items, call.input, finalInit, now)
                        ELSE JsUndefined
        request == [pc |-> "fetching", verb |-> call.verb, input |-> call.input,
                    body |-> call.body, init |-> call.init,
                    finalInit |-> finalInit, cacheOptions |-> cacheOptions,
                    response |-> NoResponse,
                    startedAt |-> now, seen |-> items, raisedSince |-> {},
                    netCalls |-> 0,
                    cacheReads |-> IF UsesCache(cacheOptions) THEN 1 ELSE 0,
                    cacheWrites |-> 0, decodes |-> 0]
    IN  /\ Cardinality(InFlight) < limit
        /\ IF UsesCache(cacheOptions) /\ ReturnsCached(cachedResult)
           THEN /\ done' = Resolved([request EXCEPT !.pc = "idle"], cachedResult, TRUE, items)
                /\ req' = req
           ELSE \* the model holds at most room entries: a call that may store
                \* starts only while there is room for its entry
                /\ UsesCache(cacheOptions) =>
                      Len(items) + Cardinality(PendingStores) < room
                /\ done' = NoDone
                /\ req' = [req EXCEPT ![r] = [request EXCEPT !.netCalls = 1]]
        /\ raised' = NoRaise
        /\ UNCHANGED <<items, now, initArg, defaultInit>>

\* the transport could not complete the request: await fetch() throws
FetchRejects(r) ==
    /\ req[r].pc = "fetching"
    /\ done' = Rejected([req[r] EXCEPT !.pc = "idle"],
                        JsError("TypeError", "Failed to fetch"), items)
    /\ req' = [req EXCEPT ![r] = IdleReq]
    /\ raised' = NoRaise
    /\ UNCHANGED <<items, now, initArg, defaultInit>>

\* await fetch() returns resp: up to the next await (response.json()) or the return
FetchSettles(r, resp) ==
    /\ req[r].pc = "fetching"
    /\ IF ~Ok(resp)
       THEN /\ req' = [req EXCEPT ![r] = [req[r] EXCEPT !.pc = "errJson",
                                             !.response = resp, !.decodes = 1]]
            /\ done' = NoDone
       ELSE IF NoContent(resp)
       THEN /\ done' = Resolved([req[r] EXCEPT !.pc = "idle", !.response = resp],
                                JsNull, FALSE, items)
            /\ req' = [req EXCEPT ![r] = IdleReq]
       ELSE /\ req' = [req EXCEPT ![r] = [req[r] EXCEPT !.pc = "okJson",
                                             !.response = resp, !.decodes = 1]]
            /\ done' = NoDone
    /\ raised' = NoRaise
    /\ UNCHANGED <<items, now, initArg, defaultInit>>

\* await response.json() settles: classification of an error, or store and return
JsonSettles(r) ==
    /\ req[r].pc \in {"errJson", "okJson"}
    /\ LET q == req[r]
           result == JsonParse(q.response.body)
       IN  IF q.pc = "errJson"
           THEN /\ done' = Rejected([q EXCEPT !.pc = "idle"], ErrorOf(q.response), items)
                /\ items' = items
           ELSE IF ~Decodable(q.response)
           THEN /\ done' = Rejected([q EXCEPT !.pc = "idle"],
                                    JsError("SyntaxError", "Unexpected token"), items)
                /\ items' = items
           ELSE IF UsesCache(q.cacheOptions)
           THEN /\ items' = StoreInCache(items, q.input, q.finalInit, result, q.cacheOptions)
                /\ done' = Resolved([q EXCEPT !.pc = "idle", !.cacheWrites = 1],
                                    result, FALSE, items)
           ELSE /\ items' = items
                /\ done' = Resolved([q EXCEPT !.pc = "idle"], result, FALSE, items)
    /\ req' = [req EXCEPT ![r] = IdleReq]
    /\ raised' = NoRaise
    /\ UNCHANGED <<now, initArg, defaultInit>>

\* ApiFetch.raiseExpireEvents(...events), called while fewer than limit calls are outstanding
RaiseExpireEvents(limit, events) ==
    /\ Cardinality(InFlight) < limit
    /\ items' = RaiseExpireEventsOn(items, events)
    /\ raised' = [fired |-> TRUE, events |-> events, before |-> items]
    /\ done' = NoDone
    /\ req' = [r \in Slots |->
                 IF req[r].pc = "idle" THEN req[r]
                 ELSE [req[r] EXCEPT !.raisedSince =
                          @ \cup {events[i] : i \in 1..Len(events)}]]
    /\ UNCHANGED <<now, initArg, defaultInit>>

\* time passes
Tick ==
    /\ now < MaxTime
    /\ now' = now + 1
    /\ done' = NoDone
    /\ raised' = NoRaise
    /\ UNCHANGED <<items, initArg, defaultInit, req>>

(***************************************************************************)
(* The calls, responses and events the specifications draw from.           *)
(***************************************************************************)
Call(verb, input, body, init) ==
    [verb |-> verb, input |-> input, body |-> body, init |-> init]

\* the README's two-argument form: the cache options passed where init goes
ReadmeInit == JsObj([expireAt |-> JsDate(MaxTime)])

\* every verb, with and without a body, with and without an init
Calls ==
    { Call("get", "/a", JsUndefined, JsUndefined),
      Call("get", "/a", JsUndefined, ReadmeInit),
      Call("post", "/a", ObjA, JsUndefined),
      Call("put", "/a", ObjA, JsUndefined),
      Call("patch", "/a", JsUndefined, JsUndefined),
      Call("delete", "/a", JsUndefined, JsUndefined),
      Call("fetch", "/a", JsUndefined, JsUndefined) }

\* cache options: { [expireAt: Date,] [expireOnEvents: string[]] }
CacheOptions(dates, eventLists) ==
    {JsObj([expireAt |-> JsDate(d)]) : d \in dates}
    \cup {JsObj([expireOnEvents |-> JsArr(e)]) : e \in eventLists}
    \cup {JsObj([expireAt |-> JsDate(d), expireOnEvents |-> JsArr(e)]) :
             d \in dates, e \in eventLists}

\* no cache options, expiry at a time, expiry on an event
OptionArgs ==
    {JsUndefined, JsObj([expireAt |-> JsDate(MaxTime)]),
     JsObj([expireOnEvents |-> JsArr(<<"x">>)])}

OkResponses ==
    { Response(200, JsNull, "{\"a\":1}"),
      Response(200, JsStr("7"), "{\"b\":2}"),
      Response(200, JsStr("0"), ""),
      Response(200, JsNull, "<html>") }

ErrorResponses == { Response(500, JsNull, "<html>") }

Responses == OkResponses \cup ErrorResponses

EventArgs == {<<"x">>, <<"y">>}

(***************************************************************************)
(* Spec: one ApiFetch over its MemoryFetchCache, one call at a time.       *)
(***************************************************************************)
Init ==
    /\ items = <<>>
    /\ now = 0
    /\ initArg = JsUndefined
    /\ defaultInit = ConstructorInit(initArg)
    /\ req = [r \in Slots |-> IdleReq]
    /\ done = NoDone
    /\ raised = NoRaise

Next ==
    \/ \E call \in Calls, cacheOptions \in OptionArgs : Start(1, MaxItems, call, cacheOptions)
    \/ \E r \in Slots : FetchRejects(r)
    \/ \E r \in Slots, resp \in Responses : FetchSettles(r, resp)
    \/ \E r \in Slots : JsonSettles(r)
    \/ \E events \in EventArgs : RaiseExpireEvents(1, events)
    \/ Tick

Spec == Init /\ [][Next]_vars

(***************************************************************************)
(* SpecEvents: the cache under event invalidation; entries listen to any   *)
(* list of the events x and y, and any list of them is raised.             *)
(***************************************************************************)
EventLists == {<<>>, <<"x">>, <<"y">>, <<"x", "y">>}

RaisedLists == EventLists \cup {<<"y", "x">>, <<"x", "x">>}

EventCalls ==
    { Call("get", "/a", JsUndefined, JsUndefined),
      Call("post", "/a", ObjA, JsUndefined) }

EventOptionArgs == CacheOptions({MaxTime}, EventLists)

EventResponses == { Response(200, JsNull, "{\"a\":1}") }

NextEvents ==
    \/ \E call \in EventCalls, cacheOptions \in EventOptionArgs :
          Start(1, MaxItems, call, cacheOptions)
    \/ \E r \in Slots, resp \in EventResponses : FetchSettles(r, resp)
    \/ \E r \in Slots : JsonSettles(r)
    \/ \E events \in RaisedLists : RaiseExpireEvents(1, events)
    \/ Tick

SpecEvents == Init /\ [][NextEvents]_vars

(***************************************************************************)
(* SpecErrors: calls answered with a status that is not ok, over every     *)
(* body of the model, or with an ok status and a body that is not JSON.    *)
(***************************************************************************)
ErrorBodies == JsonTexts \cup {"<html>", ""}

\* ok status, body that response.json() cannot decode
UndecodableOkResponses == { Response(200, JsNull, "<html>") }

AllErrorResponses ==
    {Response(status, JsNull, body) : status \in {400, 500}, body \in ErrorBodies}
    \cup {Response(404, JsStr("0"), "")}

ErrorCalls ==
    { Call("get", "/a", JsUndefined, JsUndefined),
      Call("post", "/a", ObjA, JsUndefined) }

ErrorOptionArgs == {JsUndefined, JsObj([expireAt |-> JsDate(MaxTime)])}

NextErrors ==
    \/ \E call \in ErrorCalls, cacheOptions \in ErrorOptionArgs :
          Start(1, MaxItems, call, cacheOptions)
    \/ \E r \in Slots,
          resp \in AllErrorResponses \cup UndecodableOkResponses \cup EventResponses :
          FetchSettles(r, resp)
    \/ \E r \in Slots : JsonSettles(r)
    \/ Tick

SpecErrors == Init /\ [][NextErrors]_vars

(***************************************************************************)
(* SpecMerge: an ApiFetch constructed with any init of the model, called   *)
(* through every verb with any per-call init of the model, without cache   *)
(* options; the merged RequestInit is what the transport is called with.   *)
(***************************************************************************)
\* the init arguments of the constructor: none, static inits, transform functions
ConstructorArgs ==
    { JsUndefined,
      JsObj([headers |-> JsObj([Authorization |-> JsStr("Bearer c")])]),
      JsObj([headers |-> JsObj(("Accept" :> JsStr("text/plain"))),
             credentials |-> JsStr("include")]),
      JsObj([credentials |-> JsStr("include")]),
      JsFn("withToken"),
      JsFn("onlyHead") }

\* the per-call init arguments: none, static inits, transform functions
CallInits ==
    { JsUndefined,
      JsObj([headers |-> JsObj([Authorization |-> JsStr("Bearer p")])]),
      JsObj([headers |-> JsObj(("X-Trace" :> JsStr("1"))),
             credentials |-> JsStr("omit")]),
      JsObj([mode |-> JsStr("cors")]),
      JsFn("withToken"),
      JsFn("onlyHead") }

\* the payloads of the verbs that carry a body
Payloads == {JsUndefined, ObjA, JsNum(0)}

MergeCalls ==
    {Call(verb, "/a", JsUndefined, init) : verb \in {"fetch", "get"}, init \in CallInits}
    \cup {Call(verb, "/a", body, init) :
             verb \in {"post", "put", "patch", "delete"},
             body \in Payloads, init \in CallInits}

MergeOptionArgs == {JsUndefined}

InitMerge ==
    /\ items = <<>>
    /\ now = 0
    /\ initArg \in ConstructorArgs
    /\ defaultInit = ConstructorInit(initArg)
    /\ req = [r \in Slots |-> IdleReq]
    /\ done = NoDone
    /\ raised = NoRaise

NextMerge ==
    \/ \E call \in MergeCalls, cacheOptions \in MergeOptionArgs :
          Start(1, MaxItems, call, cacheOptions)
    \/ \E r \in Slots, resp \in EventResponses : FetchSettles(r, resp)
    \/ \E r \in Slots : JsonSettles(r)

SpecMerge == InitMerge /\ [][NextMerge]_vars

(***************************************************************************)
(* SpecIdentity: cache-eligible calls that differ in url, method, headers  *)
(* and body, against a server that answers a GET with {"a":1} and every    *)
(* other method with {"b":2}: an entry with data {"a":1} was stored by a   *)
(* GET.                                                                    *)
(***************************************************************************)
TraceInit == JsObj([headers |-> JsObj(("X-Trace" :> JsStr("1")))])

IdentityCalls ==
    { Call("get", "/a", JsUndefined, JsUndefined),
      Call("get", "/a", JsUndefined, TraceInit),
      Call("get", "/b", JsUndefined, JsUndefined),
      Call("delete", "/a", JsUndefined, JsUndefined),
      Call("post", "/a", JsUndefined, TraceInit),
      Call("post", "/a", ObjA, JsUndefined),
      Call("put", "/a", ObjA, TraceInit),
      Call("put", "/b", ObjA, JsUndefined) }

IdentityOptionArgs == {JsObj([expireAt |-> JsDate(MaxTime)])}

\* the response of the server to the outstanding call q
ServerResponse(q) ==
    IF Prop(q.finalInit, "method") = JsStr("GET")
    THEN Response(200, JsNull, "{\"a\":1}")
    ELSE Response(200, JsNull, "{\"b\":2}")

NextIdentity ==
    \/ \E call \in IdentityCalls, cacheOptions \in IdentityOptionArgs :
          Start(1, MaxItems, call, cacheOptions)
    \/ \E r \in Slots : FetchSettles(r, ServerResponse(req[r]))
    \/ \E r \in Slots : JsonSettles(r)
    \/ Tick

SpecIdentity == Init /\ [][NextIdentity]_vars

(***************************************************************************)
(* SpecConcurrent: up to MaxRequests cache-eligible calls outstanding at   *)
(* once; calls start, the transport answers, bodies are decoded and events *)
(* are raised in any order.                                                *)
(***************************************************************************)
ConcurrentCalls ==
    { Call("get", "/a", JsUndefined, JsUndefined),
      Call("post", "/a", ObjA, JsUndefined) }

ConcurrentOptionArgs ==
    { JsObj([expireAt |-> JsDate(MaxTime), expireOnEvents |-> JsArr(<<"x">>)]) }

ConcurrentResponses ==
    { Response(200, JsNull, "{\"a\":1}"), Response(200, JsNull, "{\"b\":2}") }

ConcurrentEventArgs == {<<"x">>}

NextConcurrent ==
    \/ \E call \in ConcurrentCalls, cacheOptions \in ConcurrentOptionArgs :
          Start(MaxRequests, MaxItems, call, cacheOptions)
    \/ \E r \in Slots, resp \in ConcurrentResponses : FetchSettles(r, resp)
    \/ \E r \in Slots : JsonSettles(r)
    \/ \E events \in ConcurrentEventArgs : RaiseExpireEvents(MaxRequests + 1, events)

SpecConcurrent == Init /\ [][NextConcurrent]_vars

(***************************************************************************)
(* SpecValues: cache-eligible calls of one url, answered with an ok status *)
(* and any JSON value as body: an object, 0, null, false, "".              *)
(***************************************************************************)
ValueCalls == { Call("get", "/a", JsUndefined, JsUndefined) }

ValueOptionArgs == { JsObj([expireAt |-> JsDate(MaxTime)]) }

ValueResponses ==
    {Response(200, JsNull, body) : body \in {"{\"a\":1}", "0", "null", "false", "\"\""}}

NextValues ==
    \/ \E call \in ValueCalls, cacheOptions \in ValueOptionArgs :
          Start(1, MaxItems, call, cacheOptions)
    \/ \E r \in Slots, resp \in ValueResponses : FetchSettles(r, resp)
    \/ \E r \in Slots : JsonSettles(r)
    \/ Tick

SpecValues == Init /\ [][NextValues]_vars

(***************************************************************************)
(* SpecRecovery: cache-eligible gets of one url, each with an expiry date  *)
(* of its own, while time passes; the cache has room for the entry of a    *)
(* first call, of a call after its expiry, and of one more.                *)
(***************************************************************************)
RecoveryCalls == { Call("get", "/a", JsUndefined, JsUndefined) }

RecoveryOptionArgs == {JsObj([expireAt |-> JsDate(d)]) : d \in 1..MaxTime}

RecoveryResponses ==
    { Response(200, JsNull, "{\"a\":1}"), Response(200, JsNull, "{\"b\":2}") }

NextRecovery ==
    \/ \E call \in RecoveryCalls, cacheOptions \in RecoveryOptionArgs :
          Start(1, MaxItems + 1, call, cacheOptions)
    \/ \E r \in Slots, resp \in RecoveryResponses : FetchSettles(r, resp)
    \/ \E r \in Slots : JsonSettles(r)
    \/ Tick

SpecRecovery == Init /\ [][NextRecovery]_vars

(***************************************************************************)
(* Claims.                                                                 *)
(***************************************************************************)
\* the calls that have started and whose record the state holds
Started ==
    {req[r] : r \in InFlight} \cup (IF done.outcome = "none" THEN {} ELSE {done.request})

\* the call q has returned or thrown in the last step
IsDone(q) == done.outcome # "none" /\ done.request = q

\* the cache id of the call q
IdOf(q) == CacheIdOf(q.input, q.finalInit)

\* the entries of its with the id of q, in order
EntriesFor(its, q) == SelectSeq(its, LAMBDA item : item.id = IdOf(q))

\* q started with the cache holding exactly one entry, an entry of q's identity
\* whose data is a JSON object and whose expireAt is later than q's start
OneFreshEntry(q) ==
    /\ Len(q.seen) = 1
    /\ q.seen[1].id = IdOf(q)
    /\ q.seen[1].data.t = "object"
    /\ q.seen[1].expireAt.t = "date"
    /\ q.seen[1].expireAt.v > q.startedAt

\* C1: a get with cacheOptions that starts while the cache holds exactly the
\* entry stored for its url, unexpired and with an object as data, returns
\* that data and makes no network call.
C1_CacheHitBypassesNetwork ==
    \A q \in Started :
        (q.verb = "get" /\ q.cacheOptions # JsUndefined /\ OneFreshEntry(q)) =>
            /\ IsDone(q)
            /\ done.outcome = "resolved"
            /\ done.value = q.seen[1].data
            /\ q.netCalls = 0

C1_Witness ==
    /\ done.outcome = "resolved"
    /\ done.request.verb = "get"
    /\ done.request.cacheOptions # JsUndefined
    /\ OneFreshEntry(done.request)
    /\ done.value = ObjA
    /\ done.request.netCalls = 0
    /\ items = done.request.seen

\* C2: a call made with no cacheOptions makes no cache read and no cache
\* write, makes a network call, and leaves the cache entries as they were.
C2_NoCacheOptionsNoCache ==
    \A q \in Started :
        q.cacheOptions = JsUndefined =>
            /\ q.cacheReads = 0
            /\ q.cacheWrites = 0
            /\ q.netCalls = 1
            /\ items = q.seen
            /\ IsDone(q) => (~done.hit /\ items = done.before)

C2_Witness ==
    /\ done.outcome = "resolved"
    /\ done.request.cacheOptions = JsUndefined
    /\ done.request.netCalls = 1
    /\ done.request.cacheReads = 0
    /\ ReadFromCache(done.request.seen, done.request.input,
                     done.request.finalInit, done.request.startedAt) = ObjA
    /\ done.value = ObjB
    /\ items = done.request.seen

\* the cache held, when q started, a readable entry for q and q asked for it
Found(q) ==
    /\ q.cacheOptions # JsUndefined
    /\ Len(EntriesFor(q.seen, q)) > 0
    /\ EntriesFor(q.seen, q)[1].expireAt.t = "date"
    /\ EntriesFor(q.seen, q)[1].expireAt.v > q.startedAt

\* C3: a call served from the cache makes no network call, every other call
\* makes exactly one, whatever its outcome.
C3_OneNetworkCall ==
    \A q \in Started :
        /\ q.netCalls <= 1
        /\ Found(q) => (IsDone(q) /\ done.hit /\ q.netCalls = 0)
        /\ ~Found(q) => (q.netCalls = 1 /\ (IsDone(q) => ~done.hit))

C3_Witness ==
    /\ done.outcome = "rejected"
    /\ done.error.t = "SyntaxError"
    /\ done.request.cacheOptions # JsUndefined
    /\ done.request.netCalls = 1

\* q returned a value after an ok response, with cacheOptions, not from the cache
SucceededUncached(q) ==
    /\ IsDone(q)
    /\ done.outcome = "resolved"
    /\ ~done.hit
    /\ q.response.status \in 200..299
    /\ q.cacheOptions # JsUndefined

\* the step that ended q appended exactly one entry, of q's identity
WroteOnce(q) ==
    /\ q.cacheWrites = 1
    /\ Len(items) = Len(done.before) + 1
    /\ SubSeq(items, 1, Len(done.before)) = done.before
    /\ items[Len(items)].id = IdOf(q)
    /\ items[Len(items)].data = done.value

\* C4 as stated: every successful, cache-eligible, cache-missed call makes
\* exactly one cache write.
C4_OneWritePerSuccess ==
    \A q \in Started : SucceededUncached(q) => WroteOnce(q)

\* C4 amended: every successful, cache-eligible, cache-missed call whose
\* response does not declare Content-Length "0" makes exactly one cache write.
C4_OneWritePerDecodedSuccess ==
    \A q \in Started :
        (SucceededUncached(q) /\ q.response.contentLength # JsStr("0")) => WroteOnce(q)

C4_Witness ==
    /\ SucceededUncached(done.request)
    /\ WroteOnce(done.request)
    /\ Len(done.before) = 1
    /\ done.before[1].id = IdOf(done.request)

\* the (input, init) pairs with which the calls of the model read the cache:
\* those of a call without a body and of a call with one
Identities ==
    {[input |-> c.input,
      init |-> CombineRequestInit(<<defaultInit, VerbInit(c.verb, c.body, c.init)>>)] :
        c \in EventCalls}

\* the positions in its of the entries with the id of (input, init)
PositionsOf(its, input, init) ==
    {i \in 1..Len(its) : its[i].id = CacheIdOf(input, init)}

\* the entry a read of (input, init) decides on is at position i
Decides(its, input, init, i) ==
    /\ i \in PositionsOf(its, input, init)
    /\ \A j \in PositionsOf(its, input, init) : i <= j

OnlyEventsEntry(q) ==
    /\ Len(EntriesFor(q.seen, q)) > 0
    /\ EntriesFor(q.seen, q)[1].expireAt = JsUndefined
    /\ EntriesFor(q.seen, q)[1].expireOnEvents.t = "array"
    /\ EntriesFor(q.seen, q)[1].data.t = "object"

\* C6: a call with cacheOptions for an identity whose entry was stored with
\* only expireOnEvents is served from the cache, without a network call, as
\* long as none of the listed events has been raised.
C6_CachedUntilEventRaised ==
    \A q \in Started :
        (q.cacheOptions # JsUndefined /\ OnlyEventsEntry(q)) =>
            /\ IsDone(q)
            /\ done.hit
            /\ done.value = EntriesFor(q.seen, q)[1].data
            /\ q.netCalls = 0

\* q is a get in the README's two-argument form: get(url, { expireAt })
ReadmeForm(q) ==
    /\ q.verb = "get"
    /\ q.cacheOptions = JsUndefined
    /\ Prop(q.finalInit, "expireAt") = JsDate(MaxTime)

\* C7: once api.get(url, { expireAt }) has returned a decoded result, the same
\* call made again before the date makes no network call.
C7_TwoArgumentFormCaches ==
    [][ (/\ done.outcome = "resolved"
         /\ ReadmeForm(done.request)
         /\ done.value.t = "object"
         /\ now < MaxTime)
        => \A r \in Slots :
              ~(/\ req[r].pc = "idle"
                /\ req'[r].pc = "fetching"
                /\ ReadmeForm(req'[r])
                /\ req'[r].input = done.request.input
                /\ req'[r].netCalls = 1) ]_vars

\* C10: a call whose response is ok with Content-Length "0" returns null,
\* never reads the body and writes nothing to the cache, with or without
\* cacheOptions.
C10_EmptyBodyReturnsNull ==
    /\ \A r \in InFlight :
          ~(req[r].response.status \in 200..299 /\ req[r].response.contentLength = JsStr("0"))
    /\ (/\ done.outcome # "none"
        /\ done.request.response.status \in 200..299
        /\ done.request.response.contentLength = JsStr("0"))
       => /\ done.outcome = "resolved"
          /\ done.value = JsNull
          /\ done.request.decodes = 0
          /\ done.request.cacheWrites = 0
          /\ items = done.before

C10_Witness ==
    /\ done.outcome = "resolved"
    /\ done.request.verb = "post"
    /\ done.request.response = Response(200, JsStr("0"), "")
    /\ done.request.cacheOptions # JsUndefined
    /\ done.value = JsNull
    /\ items = done.before

\* the names in a list of event names
Names(list) == {list[i] : i \in 1..Len(list)}

\* the entry listens to one of the raised events
Listens(item, events) ==
    /\ item.expireOnEvents.t = "array"
    /\ Names(item.expireOnEvents.v) \cap Names(events) # {}

\* C8: raiseExpireEvents(E) removes exactly the entries whose expireOnEvents
\* shares a name with E; every other entry is kept, unchanged and in order.
C8_RaiseRemovesListeners ==
    raised.fired =>
        /\ \A i \in 1..Len(items) : ~Listens(items[i], raised.events)
        /\ items = SelectSeq(raised.before, LAMBDA item : ~Listens(item, raised.events))

\* raising x removed the entry stored with ["x"] and kept the one stored with ["y"]
C8_Witness ==
    /\ raised.fired
    /\ raised.events = <<"x">>
    /\ Len(raised.before) = 2
    /\ raised.before[1].expireOnEvents = JsArr(<<"x">>)
    /\ raised.before[2].expireOnEvents = JsArr(<<"y">>)
    /\ items = <<raised.before[2]>>

\* the message C9 gives a response that is not ok
ClaimedMessage(resp) ==
    IF resp.body \notin JsonTexts THEN StatusMessage(resp)
    ELSE LET body == JsonParse(resp.body)
         IN  IF Truthy(Prop(Prop(body, "error"), "description"))
             THEN JsToString(Prop(Prop(body, "error"), "description"))
             ELSE IF Truthy(Prop(body, "error")) THEN JsToString(Prop(body, "error"))
             ELSE IF Truthy(Prop(body, "errorMessage"))
             THEN JsToString(Prop(body, "errorMessage"))
             ELSE StatusMessage(resp)

\* C9: a response with a status that is not ok makes the call fail: with the
\* status code when the body is undecodable, else with error.description,
\* else with the error field as a string, else with errorMessage, else with
\* the status code; it never returns a value.
C9_ErrorClassification ==
    (done.outcome # "none" /\ done.request.netCalls = 1
        /\ done.request.response # NoResponse
        /\ done.request.response.status \notin 200..299)
    => /\ done.outcome = "rejected"
       /\ done.error.v = ClaimedMessage(done.request.response)

\* the response of q makes the call fail: a status that is not ok, or an ok
\* status with a body that is read and is not JSON
FailingResponse(q) ==
    /\ q.response # NoResponse
    /\ \/ q.response.status \notin 200..299
       \/ /\ q.response.contentLength # JsStr("0")
          /\ q.response.body \notin JsonTexts

\* C11: a call whose response has a status that is not ok, or an ok status
\* and an undecodable body, throws to its caller, has made one network call
\* and no cache write, and leaves the cache entries as they were, with or
\* without cacheOptions; a call that throws never changes the cache.
C11_NoErrorCached ==
    /\ \A q \in Started :
          FailingResponse(q) =>
              /\ q.cacheWrites = 0
              /\ q.netCalls = 1
              /\ IsDone(q) => (done.outcome = "rejected" /\ items = done.before)
    /\ done.outcome = "rejected" =>
          /\ items = done.before
          /\ done.request.cacheWrites = 0
          /\ done.request.netCalls = 1

\* a call with cacheOptions fails on a classified error body while the cache
\* holds an entry, and the cache still holds just that entry
C11_Witness ==
    /\ done.outcome = "rejected"
    /\ done.request.cacheOptions # JsUndefined
    /\ done.request.response = Response(400, JsNull, "{\"error\":\"denied\"}")
    /\ done.error = JsError("Error", "denied")
    /\ Len(done.before) = 1
    /\ items = done.before

\* a layer that is a RequestInit object or is absent
Static(layer) == layer.t \in {"object", "undefined"}

\* the header names a layer defines
HeaderKeys(layer) ==
    IF Prop(layer, "headers").t = "object" THEN DOMAIN Prop(layer, "headers").v ELSE {}

\* the fields other than headers that a layer holds
FieldKeys(layer) == IF layer.t = "object" THEN (DOMAIN layer.v) \ {"headers"} ELSE {}

\* the last of the layers for which At(i) holds
LastLayer(layers, At(_)) ==
    CHOOSE i \in 1..Len(layers) : At(i) /\ \A j \in 1..Len(layers) : At(j) => j <= i

\* out is the merge of the static layers as C12 states it
MergedByPrecedence(layers, out) ==
    LET headerKeys == UNION {HeaderKeys(layers[i]) : i \in 1..Len(layers)}
        fieldKeys == UNION {FieldKeys(layers[i]) : i \in 1..Len(layers)}
    IN  /\ out.t = "object"
        /\ HeaderKeys(out) = headerKeys
        /\ \A h \in headerKeys :
              out.v.headers.v[h] =
                  layers[LastLayer(layers, LAMBDA i : h \in HeaderKeys(layers[i]))].v.headers.v[h]
        /\ FieldKeys(out) = fieldKeys
        /\ \A f \in fieldKeys :
              out.v[f] = layers[LastLayer(layers, LAMBDA i : f \in FieldKeys(layers[i]))].v[f]

\* C12: the merge of static layers (built-in defaults, a static constructor
\* init, a static init passed to fetch) holds, for each header name, the value
\* of the last layer that defines it, and for each other field the value of
\* the last layer that holds it; absent layers change nothing.
C12_MergePrecedence ==
    Static(initArg) =>
        /\ MergedByPrecedence(<<BuiltInInit, initArg>>, defaultInit)
        /\ \A q \in Started :
              (q.verb = "fetch" /\ Static(q.init)) =>
                  MergedByPrecedence(<<BuiltInInit, initArg, q.init>>, q.finalInit)

\* three static layers with a header and a field in common: the constructor's
\* Accept replaces the built-in one, the call's credentials the constructor's
C12_Witness ==
    /\ initArg = JsObj([headers |-> JsObj(("Accept" :> JsStr("text/plain"))),
                        credentials |-> JsStr("include")])
    /\ \E r \in InFlight :
          /\ req[r].verb = "fetch"
          /\ req[r].init = JsObj([headers |-> JsObj(("X-Trace" :> JsStr("1"))),
                                  credentials |-> JsStr("omit")])
          /\ req[r].finalInit =
                JsObj([headers |-> JsObj(("Accept" :> JsStr("text/plain"))
                                         @@ ("Content-Type" :> JsStr("application/json"))
                                         @@ ("X-Trace" :> JsStr("1"))),
                       credentials |-> JsStr("omit")])

\* a and b hold the same headers and the same other fields
SameConfig(a, b) ==
    /\ a.t = "object" /\ b.t = "object"
    /\ HeaderKeys(a) = HeaderKeys(b)
    /\ \A h \in HeaderKeys(a) : a.v.headers.v[h] = b.v.headers.v[h]
    /\ FieldKeys(a) = FieldKeys(b)
    /\ \A f \in FieldKeys(a) : a.v[f] = b.v[f]

\* C13: a transform function given to the constructor is applied to the
\* built-in defaults and one given to fetch() to the instance defaults; what
\* it returns is the configuration from there on, headers included, and a
\* static init that follows is merged on top of it by the static rules.
C13_TransformAuthority ==
    /\ initArg.t = "function" =>
          SameConfig(defaultInit, ApplyInitFunction(initArg.v, BuiltInInit))
    /\ \A q \in Started :
          /\ (q.verb = "fetch" /\ q.init.t = "function") =>
                SameConfig(q.finalInit, ApplyInitFunction(q.init.v, defaultInit))
          /\ (q.verb = "fetch" /\ initArg.t = "function" /\ Static(q.init)) =>
                MergedByPrecedence(
                    <<ApplyInitFunction(initArg.v, BuiltInInit), q.init>>, q.finalInit)

\* the constructor's transform drops the built-in headers, and the static init
\* of the call is merged on top of what it returned
C13_Witness ==
    /\ initArg = JsFn("onlyHead")
    /\ \E r \in InFlight :
          /\ req[r].verb = "fetch"
          /\ req[r].init = JsObj([headers |-> JsObj(("X-Trace" :> JsStr("1"))),
                                  credentials |-> JsStr("omit")])
          /\ req[r].finalInit =
                JsObj([method |-> JsStr("HEAD"),
                       headers |-> JsObj(("X-Trace" :> JsStr("1"))),
                       credentials |-> JsStr("omit")])

\* the HTTP method of a verb operation
MethodOf(verb) ==
    CASE verb = "get" -> "GET" [] verb = "post" -> "POST" [] verb = "put" -> "PUT"
      [] verb = "patch" -> "PATCH" [] verb = "delete" -> "DELETE"

\* a configuration without its method and body
WithoutMethodAndBody(init) ==
    IF init.t = "object"
    THEN JsObj([k \in (DOMAIN init.v) \ {"method", "body"} |-> init.v[k]])
    ELSE init

\* the configuration handed to the transport for the verb call q is the one
\* C14 states: the verb's method, the serialized payload (for a payload that
\* is not falsy), and for the rest the merge of the instance defaults and the
\* per-call configuration
VerbConfigAsClaimed(q) ==
    /\ Prop(q.finalInit, "method") = JsStr(MethodOf(q.verb))
    /\ (q.verb # "get" /\ Truthy(q.body)) =>
          Prop(q.finalInit, "body") = JsStr(JsonStringify(q.body))
    /\ IF q.init.t = "function"
       THEN SameConfig(WithoutMethodAndBody(q.finalInit),
                       WithoutMethodAndBody(ApplyInitFunction(q.init.v, defaultInit)))
       ELSE MergedByPrecedence(<<WithoutMethodAndBody(defaultInit), q.init>>,
                               WithoutMethodAndBody(q.finalInit))

\* C14: for get, post, put, patch and delete and every per-call configuration,
\* static or a transform function, the transport is called with the merge of
\* the instance defaults and the per-call configuration, the verb's method
\* and the JSON-serialized payload; a transform function is applied.
C14_VerbConfigMerged ==
    \A q \in Started : q.verb \in {"get", "post", "put", "patch", "delete"} =>
        VerbConfigAsClaimed(q)

\* the identity of the call q: its locator and its effective body
Identity(q) == <<q.input, Prop(q.finalInit, "body")>>

\* the cache key C15 gives an identity: the locator and the body, each in brackets
KeyOf(identity) ==
    "[" \o identity[1] \o "][" \o
    (IF identity[2].t = "string" THEN identity[2].v ELSE "") \o "]"

\* the first entry of its with the key k, as a set: empty when there is none
FirstWithKey(its, k) ==
    {its[i] : i \in {j \in 1..Len(its) :
                        its[j].id = k /\ \A h \in 1..(j - 1) : its[h].id # k}}

HeaderOf(layer, h) == layer.v.headers.v[h]

\* C16: in every network call of an instance constructed with a static init
\* (or none), made through any verb or fetch() with a static per-call init (or
\* none), every header of the constructor's init and every built-in default
\* header is present: with the per-call value when the per-call init supplies
\* that header, else with the constructor's value, else with the built-in one.
C16_DefaultHeadersPresent ==
    \A q \in Started :
        (q.netCalls = 1 /\ Static(initArg) /\ Static(q.init)) =>
            \A h \in HeaderKeys(BuiltInInit) \cup HeaderKeys(initArg) :
                /\ h \in HeaderKeys(q.finalInit)
                /\ HeaderOf(q.finalInit, h) =
                      IF h \in HeaderKeys(q.init) THEN HeaderOf(q.init, h)
                      ELSE IF h \in HeaderKeys(initArg) THEN HeaderOf(initArg, h)
                      ELSE HeaderOf(BuiltInInit, h)

\* the README's example: the Authorization header of the constructor is passed
\* by a later get, together with the built-in Accept and Content-Type
C16_Witness ==
    /\ initArg = JsObj([headers |-> JsObj([Authorization |-> JsStr("Bearer c")])])
    /\ \E r \in InFlight :
          /\ req[r].verb = "get"
          /\ req[r].init = JsUndefined
          /\ req[r].netCalls = 1
          /\ Prop(req[r].finalInit, "headers") =
                JsObj(("Accept" :> JsStr("application/json"))
                      @@ ("Content-Type" :> JsStr("application/json"))
                      @@ ("Authorization" :> JsStr("Bearer c")))

\* the number of entries of its with the id of q
CountFor(its, q) == Len(EntriesFor(its, q))

\* C17: a cache-eligible call that starts while the cache holds no readable
\* entry for its identity makes a network call even when another call for the
\* same identity is outstanding; each such call that succeeds appends its own
\* entry, also when an overlapping call has stored one under the same key
\* meanwhile; an outstanding call is always at an await, with its lookup and
\* its transport call made and nothing written.
C17_NoSingleFlight ==
    /\ \A q \in Started :
          (q.cacheOptions # JsUndefined /\ ~Found(q)) => q.netCalls = 1
    /\ \A r \in InFlight :
          /\ req[r].pc \in {"fetching", "errJson", "okJson"}
          /\ req[r].cacheReads = 1 /\ req[r].netCalls = 1 /\ req[r].cacheWrites = 0
    /\ \A q \in Started :
          (IsDone(q) /\ done.outcome = "resolved" /\ ~done.hit
              /\ q.cacheOptions # JsUndefined) =>
                  /\ Len(items) = Len(done.before) + 1
                  /\ SubSeq(items, 1, Len(done.before)) = done.before
                  /\ CountFor(items, q) = CountFor(done.before, q) + 1

\* two calls for one identity started on an empty cache; the second to finish
\* stores its entry next to the one the first has stored: two entries, one key
C17_Witness ==
    /\ done.outcome = "resolved"
    /\ ~done.hit
    /\ done.request.seen = <<>>
    /\ Len(done.before) = 1
    /\ done.before[1].id = IdOf(done.request)
    /\ Len(items) = 2
    /\ items[1].id = items[2].id

\* the entry a store of the value for the call q appends
EntryOf(q, value) ==
    [id |-> IdOf(q), data |-> value,
     expireAt |-> Prop(q.cacheOptions, "expireAt"),
     expireOnEvents |-> Prop(q.cacheOptions, "expireOnEvents")]

\* the earliest entry of its under the key of (input, init), alone
EarliestOnly(its, input, init) ==
    IF PositionsOf(its, input, init) = {} THEN <<>>
    ELSE <<its[CHOOSE i \in 1..Len(its) : Decides(its, input, init, i)]>>

\* C18: a store leaves every existing entry as it is and appends one entry,
\* also under a key that already has entries; a read leaves the entries as
\* they are and answers as if only the earliest entry under the key were
\* stored: a hit returns the earliest entry's data, not a later duplicate's.
C18_AppendOnlyEarliestWins ==
    /\ (done.outcome = "resolved" /\ ~done.hit
           /\ done.request.cacheOptions # JsUndefined) =>
          items = Append(done.before, EntryOf(done.request, done.value))
    /\ done.hit =>
          /\ items = done.before
          /\ \E i \in 1..Len(done.before) :
                /\ Decides(done.before, done.request.input, done.request.finalInit, i)
                /\ done.value = done.before[i].data
    /\ \A k \in Identities :
          ReadFromCache(items, k.input, k.init, now) =
              ReadFromCache(EarliestOnly(items, k.input, k.init), k.input, k.init, now)

\* two entries under one key with different data: the call is served the data
\* of the earlier one
C18_Witness ==
    /\ done.hit
    /\ Len(done.before) = 2
    /\ done.before[1].id = IdOf(done.request)
    /\ done.before[2].id = IdOf(done.request)
    /\ done.before[1].data # done.before[2].data
    /\ done.value = done.before[1].data
    /\ items = done.before

\* C19: a cache-eligible call that starts while the entry deciding for its
\* identity is unexpired returns the data stored in that entry, whatever that
\* value is (an object, null, false, 0, ""), and makes no network call.
C19_HitWhateverValue ==
    \A q \in Started :
        \A e \in FirstWithKey(q.seen, IdOf(q)) :
            (q.cacheOptions # JsUndefined
                /\ e.expireAt.t = "date" /\ e.expireAt.v > q.startedAt) =>
                    /\ q.netCalls = 0
                    /\ IsDone(q)
                    /\ done.outcome = "resolved"
                    /\ done.value = e.data

\* an event the call q listens to was raised while q was outstanding
RaisedWhileOutstanding(q) ==
    /\ Prop(q.cacheOptions, "expireOnEvents").t = "array"
    /\ Names(Prop(q.cacheOptions, "expireOnEvents").v) \cap q.raisedSince # {}

\* C20: when an event a cache-eligible call listens to is raised while the
\* call awaits its response, the call, once it returns, has left no readable
\* entry with the data of that response: none of the entries it has added
\* decides a read of its identity while unexpired.
C20_RaiseNotUndone ==
    \A q \in Started :
        (IsDone(q) /\ q.cacheOptions # JsUndefined /\ RaisedWhileOutstanding(q)) =>
            \A i \in (Len(done.before) + 1)..Len(items) :
                ~(/\ Decides(items, q.input, q.finalInit, i)
                  /\ items[i].expireAt.t = "date"
                  /\ items[i].expireAt.v > now)

\* q started with the cache holding two entries of its identity: one that had
\* expired by then and, stored after it, one that had not
RefetchedAfterExpiry(q) ==
    /\ Len(EntriesFor(q.seen, q)) = 2
    /\ EntriesFor(q.seen, q)[1].expireAt.t = "date"
    /\ EntriesFor(q.seen, q)[1].expireAt.v <= q.startedAt
    /\ EntriesFor(q.seen, q)[2].expireAt.t = "date"
    /\ EntriesFor(q.seen, q)[2].expireAt.v > q.startedAt

\* C21: after the entry of an identity has expired and a later call has
\* stored a new result with a future expireAt, the next cache-eligible call
\* for that identity before the new expireAt is a cache hit: it returns the
\* newly stored data and makes no network call.
C21_RecoversAfterExpiry ==
    \A q \in Started :
        (q.cacheOptions # JsUndefined /\ RefetchedAfterExpiry(q)) =>
            /\ q.netCalls = 0
            /\ IsDone(q)
            /\ done.hit
            /\ done.value = EntriesFor(q.seen, q)[2].data

====
